---- MODULE Spec2Model ----
(***************************************************************************)
(* A model of Veristat_TLF_Packager.py: the table-of-contents assembly     *)
(* (add_toc_and_links and its helpers) and the TLFApp handlers that scan   *)
(* the folder and run the packaging worker.                                *)
(*                                                                         *)
(* Lengths are in thousandths of a point, so that the font metrics of      *)
(* Helvetica at font size 8 are integers.                                  *)
(***************************************************************************)
EXTENDS Integers, Sequences, FiniteSets, TLC

VARIABLES
    base,        \* add_toc_and_links: the bookmarked PDF it is given (for a
                 \* function looked at on its own: its arguments)
    tocres,      \* add_toc_and_links: what it produced ("none" before the
                 \* call; for a function looked at on its own: its result)
    tocpc,       \* "start" before the call, "saved" (or the like) after
    fs,          \* the files of the folder: file name -> content
    out_folder,  \* TLFApp.out_folder ("" until a folder is chosen)
    table_data,  \* TLFApp.table_data: rows [include, ftype, fname, bookmark]
    sorted_once, \* TLFApp.sorted_once
    handler,     \* the handler of TLFApp that ran last on the GUI thread
    outpdf_var,  \* TLFApp.outpdf_var: the name in the Output PDF Name field
    now,         \* datetime.now(), in minutes
    toc_checkbox,\* TLFApp.toc_checkbox
    runs         \* the worker threads started by generate_pdf and
                 \* convert_checked_files, one record each

tocvars == <<base, tocres, tocpc>>
tablevars == <<fs, out_folder, table_data, sorted_once, handler>>
packvars == <<outpdf_var, now, toc_checkbox, runs>>
vars == <<tocvars, tablevars, packvars>>

(***************************************************************************)
(* Geometry of add_toc_and_links                                           *)
(***************************************************************************)
FontSize == 8000
PaperWidth == 595000
PaperHeight == 842000
LeftMargin == 50000
RightMargin == 60000
Gap == 8000
\* fitz.get_text_length("99999", fontsize=8): five Helvetica digits of 0.556 em
PageNumberColumn == 22240
\* fitz.get_text_length(" ", fontsize=8): a Helvetica space of 0.278 em
SpaceWidth == 2224
LevelIndent == 20000
TopAllowance == 100000
HeadingLines == 2

page_number_x == PaperWidth - RightMargin
toc_text_max_width == page_number_x - LeftMargin - PageNumberColumn - Gap

(***************************************************************************)
(* Bounds of the inputs.  A word is modelled by its measured width; a      *)
(* title is the sequence of its words.                                     *)
(***************************************************************************)
MaxEntries == 3
LongWords == 30
HugeWords == 60
BodyPages == {1, 2}
Levels == {1, 2}
HalfWord == 225000
WideWord == 500000

Titles ==
    { <<>>,
      <<HalfWord, HalfWord>>,
      [i \in 1..LongWords |-> WideWord],
      [i \in 1..HugeWords |-> WideWord] }

RECURSIVE SumSeq(_)
SumSeq(s) == IF s = <<>> THEN 0 ELSE Head(s) + SumSeq(Tail(s))

RECURSIVE Concat(_)
Concat(ss) == IF ss = <<>> THEN <<>> ELSE Head(ss) \o Concat(Tail(ss))

SeqsUpTo(S, n) == UNION { [1..k -> S] : k \in 0..n }

\* fitz.get_text_length of the words of a line joined by single spaces
get_text_length(line) ==
    IF line = <<>> THEN 0 ELSE SumSeq(line) + SpaceWidth * (Len(line) - 1)

(***************************************************************************)
(* wrap_toc_title                                                          *)
(***************************************************************************)
\* a plausible slip: a word that cannot fit on any line is left out
WrapWordDropWide(st, word, max_width) ==
    LET test_line == Append(st.current_line, word)
    IN  IF get_text_length(test_line) <= max_width
        THEN [lines |-> st.lines, current_line |-> test_line]
        ELSE IF get_text_length(<<word>>) > max_width
        THEN st
        ELSE [lines |-> IF st.current_line # <<>>
                        THEN Append(st.lines, st.current_line)
                        ELSE st.lines,
              current_line |-> <<word>>]

\* one turn of the loop over the words: st holds lines and current_line
WrapWord(st, word, max_width) ==
    LET test_line == Append(st.current_line, word)
    IN  IF get_text_length(test_line) <= max_width
        THEN [lines |-> st.lines, current_line |-> test_line]
        ELSE [lines |-> IF st.current_line # <<>>
                        THEN Append(st.lines, st.current_line)
                        ELSE st.lines,
              current_line |-> <<word>>]

\* The loop over words[lo..hi] in order, from state st.  It is evaluated by
\* halves, the left half first (the test on left is there for that alone and
\* is never true), which keeps the evaluation shallow on long titles.
RECURSIVE WrapLoop(_, _, _, _, _)
WrapLoop(words, st, lo, hi, max_width) ==
    IF lo > hi THEN st
    ELSE IF lo = hi THEN WrapWord(st, words[lo], max_width)
    ELSE LET mid == (lo + hi) \div 2
             left == WrapLoop(words, st, lo, mid, max_width)
         IN  IF left.lines = <<>> /\ mid < lo THEN left
             ELSE WrapLoop(words, left, mid + 1, hi, max_width)

wrap_toc_title(title, max_width) ==
    LET words == title
        st == WrapLoop(words, [lines |-> <<>>, current_line |-> <<>>],
                       1, Len(words), max_width)
        lines == IF st.current_line # <<>> THEN Append(st.lines, st.current_line)
                                            ELSE st.lines
    IN  SelectSeq(lines, LAMBDA line : line # <<>>)

(***************************************************************************)
(* add_toc_and_links.extract_toc_entries                                   *)
(***************************************************************************)
extract_toc_entries(doc) ==
    [i \in 1..Len(doc.toc) |-> <<doc.toc[i][1], doc.toc[i][2], doc.toc[i][3] - 1>>]

(***************************************************************************)
(* add_toc_and_links.paginate_wrapped_entries                              *)
(***************************************************************************)
lines_per_page(page_height) ==
    ((page_height - TopAllowance) \div ((FontSize * 3) \div 2)) - HeadingLines

WrappedOf(entry, max_width) ==
    wrap_toc_title(entry[2], max_width - LevelIndent * (entry[1] - 1))

\* a plausible slip: an entry that does not fit is cut at the page's capacity
PaginateEntrySplit(st, entry, max_width, capacity) ==
    LET wrapped_lines == WrappedOf(entry, max_width)
        line_count == Len(wrapped_lines)
        room == capacity - st.current_line_count
    IN  IF st.current_line_count + line_count > capacity /\ room > 0
        THEN [paginated_entries |->
                  Append(st.paginated_entries,
                         Append(st.current_page_entries,
                                <<entry, SubSeq(wrapped_lines, 1, room)>>)),
              current_page_entries |->
                  << <<entry, SubSeq(wrapped_lines, room + 1, line_count)>> >>,
              current_line_count |-> line_count - room]
        ELSE [paginated_entries |->
                  IF st.current_line_count + line_count > capacity
                  THEN Append(st.paginated_entries, st.current_page_entries)
                  ELSE st.paginated_entries,
              current_page_entries |-> Append(st.current_page_entries,
                                              <<entry, wrapped_lines>>),
              current_line_count |-> st.current_line_count + line_count]

\* one turn of the loop over the entries: st holds paginated_entries,
\* current_page_entries and current_line_count
PaginateEntry(st, entry, max_width, capacity) ==
    LET wrapped_lines == WrappedOf(entry, max_width)
        line_count == Len(wrapped_lines)
        overflow == st.current_line_count + line_count > capacity
    IN  [paginated_entries |->
             IF overflow THEN Append(st.paginated_entries, st.current_page_entries)
                         ELSE st.paginated_entries,
         current_page_entries |->
             Append(IF overflow THEN <<>> ELSE st.current_page_entries,
                    <<entry, wrapped_lines>>),
         current_line_count |->
             (IF overflow THEN 0 ELSE st.current_line_count) + line_count]

RECURSIVE PaginateLoop(_, _, _, _)
PaginateLoop(entries, st, max_width, capacity) ==
    IF entries = <<>> THEN st
    ELSE PaginateLoop(Tail(entries),
                      PaginateEntry(st, Head(entries), max_width, capacity),
                      max_width, capacity)

paginate_wrapped_entries(toc_entries, max_width, page_height) ==
    LET st == PaginateLoop(toc_entries,
                           [paginated_entries |-> <<>>,
                            current_page_entries |-> <<>>,
                            current_line_count |-> 0],
                           max_width, lines_per_page(page_height))
    IN  IF st.current_page_entries # <<>>
        THEN Append(st.paginated_entries, st.current_page_entries)
        ELSE st.paginated_entries

(***************************************************************************)
(* add_toc_and_links.generate_toc_pages                                    *)
(***************************************************************************)
TopMargin == 50000
DigitWidth == 4448
DotWidth == 2224
DotPad == 2000

y_spacing == (FontSize * 3) \div 2

RECURSIVE Digits(_)
Digits(n) == IF n < 10 THEN 1 ELSE 1 + Digits(n \div 10)

\* the number of leader dots drawn on the last wrapped line of an entry
DotCount(x, line, page_number) ==
    LET page_number_width_local == Digits(page_number) * DigitWidth
        dots_start_x == x + get_text_length(line) + DotPad
        limit == page_number_x - page_number_width_local - Gap
    IN  IF dots_start_x < limit THEN (limit - dots_start_x) \div DotWidth ELSE 0

\* what one entry draws, starting at height y of TOC page page_index
DrawEntry(entry, wrapped_lines, page_index, y, toc_page_count) ==
    LET x == LeftMargin + LevelIndent * (entry[1] - 1)
        page_number == entry[3] + toc_page_count + 1
        n == Len(wrapped_lines)
    IN  [i \in 1..n |->
            [page |-> page_index, x |-> x, y |-> y + (i - 1) * y_spacing,
             text |-> wrapped_lines[i],
             number |-> IF i = n THEN <<page_number>> ELSE <<>>,
             dots |-> IF i = n THEN DotCount(x, wrapped_lines[i], page_number) ELSE 0]]

\* a plausible slip: the link keeps the 1-based page number of the outline
LinkOfEntryOneBased(entry, wrapped_lines, page_index, y) ==
    LET x == LeftMargin + LevelIndent * (entry[1] - 1)
    IN  <<page_index,
          <<x, y - FontSize, page_number_x, y + Len(wrapped_lines) * y_spacing>>,
          entry[3] + 1>>

\* rect = fitz.Rect(...); link_targets.append((page_index, rect, target_page))
LinkOfEntry(entry, wrapped_lines, page_index, y) ==
    LET x == LeftMargin + LevelIndent * (entry[1] - 1)
    IN  <<page_index,
          <<x, y - FontSize, page_number_x, y + Len(wrapped_lines) * y_spacing>>,
          entry[3]>>

RECURSIVE RenderEntries(_, _, _, _, _)
RenderEntries(entries, page_index, y, toc_page_count, acc) ==
    IF entries = <<>> THEN acc
    ELSE LET entry == Head(entries)[1]
             wrapped_lines == Head(entries)[2]
         IN  RenderEntries(
                 Tail(entries), page_index, y + Len(wrapped_lines) * y_spacing,
                 toc_page_count,
                 [drawn |-> acc.drawn \o
                      DrawEntry(entry, wrapped_lines, page_index, y, toc_page_count),
                  link_targets |-> Append(acc.link_targets,
                      LinkOfEntry(entry, wrapped_lines, page_index, y))])

RECURSIVE RenderPages(_, _, _, _)
RenderPages(paginated_entries, page_index, toc_page_count, acc) ==
    IF page_index >= Len(paginated_entries) THEN acc
    ELSE LET y0 == IF page_index = 0 THEN TopMargin + FontSize * 2 ELSE TopMargin
             r == RenderEntries(paginated_entries[page_index + 1], page_index, y0,
                                toc_page_count,
                                [drawn |-> acc.drawn, link_targets |-> acc.link_targets])
         IN  RenderPages(paginated_entries, page_index + 1, toc_page_count,
                         [pages |-> acc.pages + 1, drawn |-> r.drawn,
                          link_targets |-> r.link_targets])

\* toc_doc (its page count and what is drawn on it) and link_targets
generate_toc_pages(paginated_entries, toc_page_count) ==
    RenderPages(paginated_entries, 0, toc_page_count,
                [pages |-> 0, drawn |-> <<>>, link_targets |-> <<>>])

(***************************************************************************)
(* add_toc_and_links: the assembly of the final document                   *)
(***************************************************************************)
\* a plausible slip: the outline is shifted like the 0-based link targets
ShiftBookmarkPagesZeroBased(bookmarks, offset) ==
    [i \in 1..Len(bookmarks) |->
        <<bookmarks[i][1], bookmarks[i][2], bookmarks[i][3] - 1 + offset>>]

shift_bookmark_pages(bookmarks, offset) ==
    [i \in 1..Len(bookmarks) |->
        <<bookmarks[i][1], bookmarks[i][2], bookmarks[i][3] + offset>>]

\* a plausible slip: only the TOC pages that carry entries are counted
TocPageCountNonEmpty(paginated_entries) ==
    Cardinality({ p \in 1..Len(paginated_entries) : paginated_entries[p] # <<>> })

\* the page count handed to generate_toc_pages and used for links and outline
TocPageCount(paginated_entries) == Len(paginated_entries)

add_toc_and_links(bookmarked_pdf) ==
    LET original_toc == extract_toc_entries(bookmarked_pdf)
        original_bookmarks == bookmarked_pdf.toc
        paginated == paginate_wrapped_entries(original_toc, toc_text_max_width,
                                              PaperHeight)
        gen == generate_toc_pages(paginated, TocPageCount(paginated))
        toc_page_count == TocPageCount(paginated)
    IN  [paginated |-> paginated,
         drawn |-> gen.drawn,
         link_targets |-> gen.link_targets,
         \* final.insert_pdf(toc_doc); final.insert_pdf(base)
         pages |-> [i \in 1..gen.pages |-> <<"toc", i - 1>>] \o
                   [k \in 1..bookmarked_pdf.pages |-> <<"body", k - 1>>],
         links |-> [i \in 1..Len(gen.link_targets) |->
                      [on |-> gen.link_targets[i][1],
                       from |-> gen.link_targets[i][2],
                       page |-> gen.link_targets[i][3] + toc_page_count]],
         toc |-> shift_bookmark_pages(original_bookmarks, toc_page_count)]

(***************************************************************************)
(* TLFApp.__init__: the state of the window once it is built               *)
(***************************************************************************)
MaxRuns == 2

OutName(t, v) == [base |-> "TLFs_Merged_", ts |-> t, ver |-> v, bk |-> FALSE,
                  ext |-> "pdf"]

NoRun ==
    [kind |-> "none", pc |-> "idle", output_path |-> OutName(0, <<>>),
     files_to_pack |-> <<>>, idx |-> 0, temp_pdfs |-> <<>>, toc |-> <<>>,
     merged |-> <<>>, page_count |-> 0, with_toc |-> FALSE,
     conv_failed |-> {}, faults |-> {}, signals |-> <<>>]

AppConstructed ==
    /\ out_folder = ""
    /\ table_data = <<>>
    /\ sorted_once = FALSE
    /\ handler = "init"
    /\ now = 0
    /\ outpdf_var = OutName(0, <<>>)
    /\ toc_checkbox = TRUE
    /\ runs = [r \in 1..MaxRuns |-> NoRun]

\* the variables of the table of contents, where it is not looked at
TocUnused ==
    /\ base = [pages |-> 1, toc |-> <<>>]
    /\ tocres = "none"
    /\ tocpc = "start"

(***************************************************************************)
(* The table of contents alone: add_toc_and_links applied to every small   *)
(* bookmarked PDF.                                                         *)
(***************************************************************************)
BookmarkedPdfs ==
    { [pages |-> n, toc |-> t] :
        n \in BodyPages,
        t \in { s \in SeqsUpTo(Levels \X Titles \X (1..2), MaxEntries) :
                  s # <<>> } }

TocInit ==
    /\ base \in { b \in BookmarkedPdfs :
                    \A i \in 1..Len(b.toc) : b.toc[i][3] <= b.pages }
    /\ tocres = "none"
    /\ tocpc = "start"
    /\ fs = <<>>
    /\ AppConstructed

AddTocAndLinks ==
    /\ tocpc = "start"
    /\ tocres' = add_toc_and_links(base)
    /\ tocpc' = "saved"
    /\ UNCHANGED <<base, tablevars, packvars>>

TocNext == AddTocAndLinks

TocSpec == TocInit /\ [][TocNext]_vars

(***************************************************************************)
(* wrap_toc_title alone: every title of up to MaxWords words, at the width *)
(* of a level-1 entry, of a level-2 entry and at a width that no word fits *)
(***************************************************************************)
MaxWords == 4
WrapWidths ==
    { toc_text_max_width, toc_text_max_width - LevelIndent, HalfWord - 1 }

WrapInit ==
    /\ base \in { [title |-> t, max_width |-> w] :
                    t \in SeqsUpTo({HalfWord, WideWord}, MaxWords),
                    w \in WrapWidths }
    /\ tocres = "none"
    /\ tocpc = "start"
    /\ fs = <<>>
    /\ AppConstructed

WrapTitle ==
    /\ tocpc = "start"
    /\ tocres' = wrap_toc_title(base.title, base.max_width)
    /\ tocpc' = "wrapped"
    /\ UNCHANGED <<base, tablevars, packvars>>

WrapNext == WrapTitle

WrapSpec == WrapInit /\ [][WrapNext]_vars

(***************************************************************************)
(* File names and file contents of the folder.                             *)
(*                                                                         *)
(* A name is base + ts + "_v<n>"... + "_bookmarked" + "." + ext, where ts  *)
(* is the minute stamp of an output name (-1 for any other file).  A       *)
(* content says what kind of file it is, which document's text its first   *)
(* page shows ("" when unreadable) and which run wrote it (0: nobody).     *)
(***************************************************************************)
FileName(b, e) == [base |-> b, ts |-> -1, ver |-> <<>>, bk |-> FALSE, ext |-> e]
DocPages(d) == IF d \in {"L16", "T14b"} THEN 2 ELSE 1
Content(k, d, r, n) == [kind |-> k, doc |-> d, by |-> r, pages |-> n]

\* the files somebody may put into the folder, and the text each holds
SourceFiles ==
    { FileName("x", "rtf"), FileName("x", "pdf"), FileName("y", "docx") }
OtherFiles == { FileName("~$y", "docx"), FileName("TLF_Bookmarks", "xlsx") }
OrigDoc(name) ==
    IF name = FileName("x", "rtf") THEN "L16"
    ELSE IF name = FileName("x", "pdf") THEN "T14"
    ELSE IF name = FileName("y", "docx") THEN "T14b"
    ELSE ""
Original(name) == Content("orig", OrigDoc(name), 0, DocPages(OrigDoc(name)))

\* bookmark texts as token lists: a word, a dotted number or other characters
Word(w) == [k |-> "w", s |-> w, path |-> <<>>]
Num(pth) == [k |-> "n", s |-> "", path |-> pth]
Punct(c) == [k |-> "p", s |-> c, path |-> <<>>]

\* the bookmark the title extractors return for a file with this content
\* (the file's own name when nothing can be read from it)
ExtractBookmark(name, content) ==
    IF content.doc = "L16" THEN <<Word("listing"), Num(<<16, 2>>)>>
    ELSE IF content.doc = "T14" THEN <<Word("table"), Num(<<14, 1>>)>>
    ELSE IF content.doc = "T14b" THEN <<Word("table"), Num(<<14, 1>>), Word("b")>>
    ELSE <<Word(name.base), Punct("."), Word(name.ext)>>

\* what the reviewer may type into the Edit Bookmark dialog
ManualBookmarks == { <<Word("figure"), Num(<<9>>)>> }

(***************************************************************************)
(* sorted(os.listdir(folder)): the order of str on the names               *)
(***************************************************************************)
BaseRank(b) ==
    IF b = "TLF_Bookmarks" THEN 0
    ELSE IF b = "TLFs_Merged_" THEN 1
    ELSE IF b = "x" THEN 2
    ELSE IF b = "y" THEN 3
    ELSE 4

\* "." < "_bookmarked" < "_v<n>" for the text after the stamp
NameKey(name) ==
    <<BaseRank(name.base), name.ts + 1>> \o
    [i \in 1..Len(name.ver) |-> 2 + name.ver[i]] \o
    <<IF name.bk THEN 1 ELSE 0>>

RECURSIVE LexLess(_, _)
LexLess(a, b) ==
    IF b = <<>> THEN FALSE
    ELSE IF a = <<>> THEN TRUE
    ELSE IF Head(a) # Head(b) THEN Head(a) < Head(b)
    ELSE LexLess(Tail(a), Tail(b))

RECURSIVE SortedNames(_)
SortedNames(S) ==
    IF S = {} THEN <<>>
    ELSE LET m == CHOOSE n \in S :
                     \A o \in S \ {n} : LexLess(NameKey(n), NameKey(o))
         IN  <<m>> \o SortedNames(S \ {m})

(***************************************************************************)
(* parse_sort_key                                                          *)
(***************************************************************************)
RECURSIVE StripLeadingNonLetters(_)
StripLeadingNonLetters(text) ==
    IF text = <<>> THEN <<>>
    ELSE IF Head(text).k = "w" THEN text
    ELSE StripLeadingNonLetters(Tail(text))

\* key in word, for the words and keys of the model: the test is on
\* characters, so that "table" is found in "tablet"
InWord(key, word) == word = key \/ (key = "table" /\ word = "tablet")

\* key in text
Contains(text, key) ==
    \E i \in 1..Len(text) : text[i].k = "w" /\ InWord(key, text[i].s)

\* re.search(r'(\d+(\.\d+)*)', text): the first dotted number of the text
FirstNumber(text) ==
    LET at == { i \in 1..Len(text) : text[i].k = "n" }
    IN  IF at = {} THEN <<>>
        ELSE text[CHOOSE i \in at : \A j \in at : i <= j].path

\* re.search(r'appendix\s*(\d+)', text): the number right after "appendix"
AppendixNumber(text) ==
    LET at == { i \in 1..Len(text) - 1 :
                  /\ text[i].k = "w" /\ text[i].s = "appendix"
                  /\ text[i + 1].k = "n" }
    IN  IF at = {} THEN <<>>
        ELSE <<text[(CHOOSE i \in at : \A j \in at : i <= j) + 1].path[1]>>

CategoryRank(text) ==
    IF Contains(text, "table") THEN 0
    ELSE IF Contains(text, "listing") THEN 1
    ELSE IF Contains(text, "figure") THEN 2
    ELSE 99

\* a plausible slip: "appendix" is looked for after table, listing and figure
ParseSortKeyAppendixLast(bookmark) ==
    LET text == StripLeadingNonLetters(bookmark)
    IN  IF CategoryRank(text) # 99
        THEN <<CategoryRank(text),
               IF FirstNumber(text) # <<>> THEN FirstNumber(text) ELSE <<0>>>>
        ELSE IF Contains(text, "appendix")
        THEN <<3, IF AppendixNumber(text) # <<>> THEN AppendixNumber(text)
                                                 ELSE <<9999>>>>
        ELSE <<99, <<0>>>>

parse_sort_key(bookmark) ==
    LET text == StripLeadingNonLetters(bookmark)
    IN  IF Contains(text, "appendix")
        THEN <<3, IF AppendixNumber(text) # <<>> THEN AppendixNumber(text)
                                                 ELSE <<9999>>>>
        ELSE IF CategoryRank(text) # 99
        THEN <<CategoryRank(text),
               IF FirstNumber(text) # <<>> THEN FirstNumber(text) ELSE <<0>>>>
        ELSE <<99, <<0>>>>

\* a plausible slip: a comparison that also holds between equal keys
KeyLessOrEqual(k1, k2) ==
    k1[1] < k2[1] \/ (k1[1] = k2[1] /\ (k1[2] = k2[2] \/ LexLess(k1[2], k2[2])))

\* the order of Python on the keys (int, list of int)
KeyLess(k1, k2) == k1[1] < k2[1] \/ (k1[1] = k2[1] /\ LexLess(k1[2], k2[2]))

\* list.sort(key=...): a stable sort, here by insertion from the left
RECURSIVE InsertRow(_, _)
InsertRow(sorted, row) ==
    IF sorted = <<>> THEN <<row>>
    ELSE LET last == sorted[Len(sorted)]
         IN  IF KeyLess(parse_sort_key(row.bookmark), parse_sort_key(last.bookmark))
             THEN Append(InsertRow(SubSeq(sorted, 1, Len(sorted) - 1), row), last)
             ELSE Append(sorted, row)

RECURSIVE SortByBookmark(_)
SortByBookmark(rows) ==
    IF rows = <<>> THEN <<>>
    ELSE InsertRow(SortByBookmark(SubSeq(rows, 1, Len(rows) - 1)), rows[Len(rows)])

(***************************************************************************)
(* The title extractors.                                                   *)
(*                                                                         *)
(* A line is a sequence of pieces of text, each one of:                    *)
(*   "T"  an identifier such as "Table 14.1", which title_pattern matches  *)
(*   "w"  plain words, such as "Summary of Adverse Events"                 *)
(*   "d"  words that a footer pattern matches, such as "Draft"             *)
(*   "n"  the start of a note clause, "Note:"                              *)
(* and is never empty.  The pieces are taken to be equally long, so that   *)
(* cutting len(match.group(0)) characters off a line cuts its first piece. *)
(***************************************************************************)
PiecesOf(text) == { text[i] : i \in 1..Len(text) }

\* is_footer_content: a footer pattern is found, or the text is too short
is_footer_content(text) == text = <<>> \/ "d" \in PiecesOf(text)

\* filter_note_from_line: re.split(r'\bNote\s*:', text)[0]
filter_note_from_line(text) ==
    LET at == { i \in 1..Len(text) : text[i] = "n" }
    IN  IF at = {} THEN text
        ELSE SubSeq(text, 1, (CHOOSE i \in at : \A j \in at : i <= j) - 1)

\* valid_title_candidate, as far as the pieces tell
valid_title_candidate(candidate) ==
    /\ candidate # <<>>
    /\ ~is_footer_content(candidate)
    /\ candidate[1] # "n"

\* re.search(title_pattern, line), or re.match for anchored
Matches(line, anchored) ==
    IF anchored THEN line # <<>> /\ line[1] = "T" ELSE "T" \in PiecesOf(line)

\* line[len(match.group(0)):]
AfterMatchLength(line) == SubSeq(line, 2, Len(line))

NoTitles ==
    [title1 |-> <<>>, title2 |-> <<>>, title3 |-> <<>>,
     src1 |-> <<>>, src2 |-> <<>>, src3 |-> <<>>]

\* the index of the first line of lines[:window] that matches, 0 if none does
FirstMatch(lines, window, anchored) ==
    LET at == { i \in 1..Len(lines) : i <= window /\ Matches(lines[i], anchored) }
    IN  IF at = {} THEN 0 ELSE CHOOSE i \in at : \A j \in at : i <= j

\* what a following line gives as a title: the RTF and PDF extractors strip
\* the note clause and test what is left, the DOCX extractor tests the line
Candidate(line, cleaned) == IF cleaned THEN filter_note_from_line(line) ELSE line

\* a plausible slip: Title-3 is looked for in the line after the one that
\* gave Title-2
TitlesOnMatchShifted(lines, i, cleaned) ==
    LET remainder == filter_note_from_line(AfterMatchLength(lines[i]))
        from_line == remainder # <<>> /\ valid_title_candidate(remainder)
        next_ok == i + 1 <= Len(lines)
                   /\ valid_title_candidate(Candidate(lines[i + 1], cleaned))
        k == IF from_line THEN i + 1 ELSE i + 2
        third_ok == k <= Len(lines)
                    /\ valid_title_candidate(Candidate(lines[k], cleaned))
    IN  [title1 |-> <<"T">>,
         src1 |-> lines[i],
         title2 |-> IF from_line THEN remainder
                    ELSE IF next_ok THEN Candidate(lines[i + 1], cleaned) ELSE <<>>,
         src2 |-> IF from_line THEN lines[i]
                  ELSE IF next_ok THEN lines[i + 1] ELSE <<>>,
         title3 |-> IF third_ok THEN Candidate(lines[k], cleaned) ELSE <<>>,
         src3 |-> IF third_ok THEN lines[k] ELSE <<>>]

\* the body of "if match:": Title-1 is the match, Title-2 the rest of the
\* line or else the next line, Title-3 the line after that
TitlesOnMatch(lines, i, cleaned) ==
    LET remainder == filter_note_from_line(AfterMatchLength(lines[i]))
        from_line == remainder # <<>> /\ valid_title_candidate(remainder)
        next_ok == i + 1 <= Len(lines)
                   /\ valid_title_candidate(Candidate(lines[i + 1], cleaned))
        third_ok == i + 2 <= Len(lines)
                    /\ valid_title_candidate(Candidate(lines[i + 2], cleaned))
    IN  [title1 |-> <<"T">>,
         src1 |-> lines[i],
         title2 |-> IF from_line THEN remainder
                    ELSE IF next_ok THEN Candidate(lines[i + 1], cleaned) ELSE <<>>,
         src2 |-> IF from_line THEN lines[i]
                  ELSE IF next_ok THEN lines[i + 1] ELSE <<>>,
         title3 |-> IF third_ok THEN Candidate(lines[i + 2], cleaned) ELSE <<>>,
         src3 |-> IF third_ok THEN lines[i + 2] ELSE <<>>]

\* the fallback loops: the valid lines among lines, the first three of them,
\* each without its note clause
TitlesOfPlausible(lines) ==
    LET plausible == SelectSeq(lines, valid_title_candidate)
        At(k) == IF k <= Len(plausible) THEN plausible[k] ELSE <<>>
    IN  [title1 |-> filter_note_from_line(At(1)), src1 |-> At(1),
         title2 |-> filter_note_from_line(At(2)), src2 |-> At(2),
         title3 |-> filter_note_from_line(At(3)), src3 |-> At(3)]

FirstLines(lines, n) == SubSeq(lines, 1, IF Len(lines) < n THEN Len(lines) ELSE n)

\* bookmark = title1 [+ ": " + title2] [+ " - " + title3]
Composite(t) ==
    t.title1
    \o (IF t.title2 # <<>> THEN <<":">> \o t.title2 ELSE <<>>)
    \o (IF t.title3 # <<>> THEN <<"-">> \o t.title3 ELSE <<>>)

\* os.path.basename of the file's path
BaseName == <<"basename">>

\* a plausible slip: the composite is returned as it is
BookmarkOfComposite(t) == Composite(t)

\* the PDF and DOCX extractors: the composite, or the file's name if it is
\* empty
BookmarkOf(t) == IF Composite(t) = <<>> THEN BaseName ELSE Composite(t)

\* the RTF extractor: the composite if there is a Title-1, else the file's name
RtfBookmarkOf(t) == IF t.title1 # <<>> THEN Composite(t) ELSE BaseName

WithBookmark(t, bookmark) ==
    [title1 |-> t.title1, title2 |-> t.title2, title3 |-> t.title3,
     src1 |-> t.src1, src2 |-> t.src2, src3 |-> t.src3, bookmark |-> bookmark]

\* "return '', '', '', basename": without a Title-1 the RTF extractor returns
\* no titles; the PDF and DOCX extractors return this from "except Exception"
OnlyFileName == WithBookmark(NoTitles, BaseName)

\* the lines of the header groups, without the footer lines; every line is
\* searched; there is no fallback
extract_titles_from_rtf(raw_lines) ==
    LET header_lines == SelectSeq(raw_lines, LAMBDA l : ~is_footer_content(l))
        i == FirstMatch(header_lines, Len(header_lines), FALSE)
        t == IF i # 0 THEN TitlesOnMatch(header_lines, i, TRUE) ELSE NoTitles
    IN  IF t.title1 # <<>> THEN WithBookmark(t, RtfBookmarkOf(t)) ELSE OnlyFileName

PdfWindow == 20
PdfFallbackLines == 3

\* the text lines of page 1, as they are; the first 20 are searched; the
\* fallback looks at the first 3
extract_title_from_pdf(lines) ==
    LET i == FirstMatch(lines, PdfWindow, FALSE)
        t == IF i # 0 THEN TitlesOnMatch(lines, i, TRUE)
             ELSE TitlesOfPlausible(FirstLines(lines, PdfFallbackLines))
    IN  WithBookmark(t, BookmarkOf(t))

DocxHeaderWindow == 10
DocxBodyWindow == 15
DocxFallbackLines == 15

\* the header paragraphs, then the body paragraphs, both without the footer
\* lines and matched at the start of the line only; the fallback takes the
\* first three valid lines of both
extract_title_from_docx(header, body) ==
    LET paras == SelectSeq(header, LAMBDA l : ~is_footer_content(l))
        body_paras == SelectSeq(body, LAMBDA l : ~is_footer_content(l))
        i == FirstMatch(paras, DocxHeaderWindow, TRUE)
        j == FirstMatch(body_paras, DocxBodyWindow, TRUE)
        t == IF i # 0 THEN TitlesOnMatch(paras, i, FALSE)
             ELSE IF j # 0 THEN TitlesOnMatch(body_paras, j, FALSE)
             ELSE TitlesOfPlausible(FirstLines(paras \o body_paras, DocxFallbackLines))
    IN  WithBookmark(t, BookmarkOf(t))

(***************************************************************************)
(* The extractors alone: every document of up to MaxLines lines of the     *)
(* kinds below, in each format (for DOCX with every split of the lines     *)
(* into header and body).                                                  *)
(***************************************************************************)
MaxLines == 4

LineKinds ==
    { <<"T">>, <<"T", "w">>, <<"T", "d">>, <<"w", "T", "w">>,
      <<"T", "n", "w">>, <<"w">>, <<"d">>, <<"w", "n", "d">>, <<"n", "w">> }

Documents ==
    { [fmt |-> f, lines |-> l, header |-> h] :
        f \in {"RTF", "PDF"}, l \in SeqsUpTo(LineKinds, MaxLines) \ {<<>>}, h \in {0} }
    \cup
    { d \in [fmt : {"DOCX"}, lines : SeqsUpTo(LineKinds, MaxLines) \ {<<>>},
             header : 0..MaxLines] : d.header <= Len(d.lines) }

TitleInit ==
    /\ base \in Documents
    /\ tocres = "none"
    /\ tocpc = "start"
    /\ fs = <<>>
    /\ AppConstructed

ExtractTitles ==
    /\ tocpc = "start"
    /\ tocres' =
          IF base.fmt = "RTF" THEN extract_titles_from_rtf(base.lines)
          ELSE IF base.fmt = "PDF" THEN extract_title_from_pdf(base.lines)
          ELSE extract_title_from_docx(
                   SubSeq(base.lines, 1, base.header),
                   SubSeq(base.lines, base.header + 1, Len(base.lines)))
    /\ tocpc' = "extracted"
    /\ UNCHANGED <<base, tablevars, packvars>>

\* the file cannot be read: extract_header_lines_with_tablepattern returns no
\* lines to the RTF extractor, the PDF and DOCX extractors catch the exception
ExtractFails ==
    /\ tocpc = "start"
    /\ tocres' = IF base.fmt = "RTF" THEN extract_titles_from_rtf(<<>>)
                 ELSE OnlyFileName
    /\ tocpc' = "failed"
    /\ UNCHANGED <<base, tablevars, packvars>>

TitleNext == ExtractTitles \/ ExtractFails

TitleSpec == TitleInit /\ [][TitleNext]_vars

(***************************************************************************)
(* The RTF header scanner.  A header text is a sequence of characters, "{", *)
(* "}" or "a" for any other character.                                     *)
(***************************************************************************)
\* a plausible slip: the buffer is not emptied when a group opens at depth 0
ScanCharNoReset(st, c) ==
    IF c = "{"
    THEN [groups |-> st.groups, depth |-> st.depth + 1, buf |-> Append(st.buf, c)]
    ELSE IF c = "}"
    THEN IF st.depth - 1 = 0
         THEN [groups |-> Append(st.groups, Append(st.buf, c)), depth |-> 0,
               buf |-> <<>>]
         ELSE [groups |-> st.groups, depth |-> st.depth - 1, buf |-> Append(st.buf, c)]
    ELSE IF st.depth > 0
    THEN [groups |-> st.groups, depth |-> st.depth, buf |-> Append(st.buf, c)]
    ELSE st

\* one turn of "for c in header_text"
ScanChar(st, c) ==
    IF c = "{"
    THEN [groups |-> st.groups, depth |-> st.depth + 1,
          buf |-> Append(IF st.depth = 0 THEN <<>> ELSE st.buf, c)]
    ELSE IF c = "}"
    THEN IF st.depth - 1 = 0
         THEN [groups |-> Append(st.groups, Append(st.buf, c)), depth |-> 0,
               buf |-> <<>>]
         ELSE [groups |-> st.groups, depth |-> st.depth - 1, buf |-> Append(st.buf, c)]
    ELSE IF st.depth > 0
    THEN [groups |-> st.groups, depth |-> st.depth, buf |-> Append(st.buf, c)]
    ELSE st

RECURSIVE ScanLoop(_, _)
ScanLoop(header_text, k) ==
    IF k = 0 THEN [groups |-> <<>>, depth |-> 0, buf |-> <<>>]
    ELSE ScanChar(ScanLoop(header_text, k - 1), header_text[k])

\* header_text is what follows \header up to \sectd or the end; without a
\* header there are no groups
extract_groups_from_rtf_header(header_text) ==
    IF header_text = <<>> THEN <<>>
    ELSE ScanLoop(header_text, Len(header_text)).groups

MaxChars == 7

HeaderChars == {"{", "}", "a"}

GroupInit ==
    /\ base \in SeqsUpTo(HeaderChars, MaxChars)
    /\ tocres = <<>>
    /\ tocpc = "start"
    /\ fs = <<>>
    /\ AppConstructed

ExtractGroups ==
    /\ tocpc = "start"
    /\ tocres' = extract_groups_from_rtf_header(base)
    /\ tocpc' = "scanned"
    /\ UNCHANGED <<base, tablevars, packvars>>

GroupNext == ExtractGroups

GroupSpec == GroupInit /\ [][GroupNext]_vars

(***************************************************************************)
(* The sort alone: table_data.sort(key=parse_sort_key of the bookmark) on  *)
(* every list of up to MaxRows rows with bookmarks of the kinds below.     *)
(***************************************************************************)
MaxRows == 3

SortBookmarks ==
    { <<Word("table"), Num(<<14, 1>>)>>,
      <<Word("table")>>,
      <<Num(<<1>>), Punct(")"), Word("listing"), Num(<<16, 2>>)>>,
      <<Word("figure"), Num(<<9>>)>>,
      <<Word("appendix"), Num(<<3>>), Punct(":"), Word("listing"), Word("of"),
        Word("protocol"), Word("deviations")>>,
      <<Word("appendix"), Num(<<3, 2>>)>>,
      <<Word("appendix"), Punct(":"), Word("codes")>>,
      <<Word("study"), Num(<<101>>), Word("table"), Num(<<14, 1>>)>>,
      <<Word("listing"), Num(<<16, 2>>), Punct(":"), Word("tablet"), Word("counts")>>,
      <<Word("x"), Punct("."), Word("pdf")>> }

\* the i-th row is the file r<i>.pdf
RowName(i) == [FileName("r", "pdf") EXCEPT !.ts = i]

SortInit ==
    /\ base \in UNION { { [i \in 1..n |->
                              [include |-> TRUE, ftype |-> "PDF",
                               fname |-> RowName(i), bookmark |-> bms[i]]] :
                          bms \in [1..n -> SortBookmarks] } : n \in 1..MaxRows }
    /\ tocres = "none"
    /\ tocpc = "start"
    /\ fs = <<>>
    /\ AppConstructed

SortRows ==
    /\ tocpc = "start"
    /\ tocres' = SortByBookmark(base)
    /\ tocpc' = "sorted"
    /\ UNCHANGED <<base, tablevars, packvars>>

SortNext == SortRows

SortSpec == SortInit /\ [][SortNext]_vars

(***************************************************************************)
(* TLFApp.refresh_folder and TLFApp.browse_folder                          *)
(***************************************************************************)
TypeOfExt(ext) ==
    IF ext = "rtf" THEN "RTF" ELSE IF ext = "pdf" THEN "PDF"
    ELSE IF ext = "docx" THEN "DOCX" ELSE ""

StartsWithTildeDollar(name) == name.base = "~$y"

\* [(ftype, f) for f in sorted(listdir) if f ends with the type's extension
\*  and does not start with "~$"], for one type
FilesOfTypeIn(files, ext) ==
    SortedNames({ n \in DOMAIN files : n.ext = ext /\ ~StartsWithTildeDollar(n) })

FilesOfType(ext) == FilesOfTypeIn(fs, ext)

\* file_list for a folder holding files
FileListIn(files) ==
    FilesOfTypeIn(files, "rtf") \o FilesOfTypeIn(files, "pdf")
    \o FilesOfTypeIn(files, "docx")

file_list == FileListIn(fs)

RowKey(row) == <<row.ftype, row.fname>>
KeysOf(rows) == { RowKey(rows[i]) : i \in 1..Len(rows) }

\* [True, ftype, fname, t1, t2, t3, bm] for a file of the folder
NewRowIn(files, name) ==
    [include |-> TRUE, ftype |-> TypeOfExt(name.ext), fname |-> name,
     bookmark |-> ExtractBookmark(name, files[name])]

NewRow(name) == NewRowIn(fs, name)

\* a plausible slip: a full rescan that rebuilds and re-sorts the whole table
RefreshedTableRebuilt(rows, already_sorted) ==
    SortByBookmark([i \in 1..Len(file_list) |-> NewRow(file_list[i])])

\* table_data after refresh_folder of a folder holding files, from the rows
\* before it
RefreshedTableIn(files, rows, already_sorted) ==
    LET listed == FileListIn(files)
        fileset == { <<TypeOfExt(listed[i].ext), listed[i]>> : i \in 1..Len(listed) }
        existing_keys == KeysOf(rows)
        kept == SelectSeq(rows, LAMBDA row : RowKey(row) \in fileset)
        new_files == SelectSeq(listed,
                        LAMBDA n : <<TypeOfExt(n.ext), n>> \notin existing_keys)
        added == kept \o [i \in 1..Len(new_files) |-> NewRowIn(files, new_files[i])]
    IN  IF ~already_sorted THEN SortByBookmark(added) ELSE added

RefreshedTable(rows, already_sorted) == RefreshedTableIn(fs, rows, already_sorted)

refresh_folder ==
    IF out_folder = ""
    THEN UNCHANGED <<table_data, sorted_once>>
    ELSE /\ table_data' = RefreshedTable(table_data, sorted_once)
         /\ sorted_once' = TRUE

\* the 3-second timer
TimerRefresh ==
    /\ refresh_folder
    /\ handler' = "refresh_folder"
    /\ UNCHANGED <<fs, out_folder>>
    /\ UNCHANGED <<tocvars, packvars>>

\* the folder dialog returns the folder; a cancelled dialog changes nothing
BrowseFolder ==
    /\ out_folder' = "F"
    /\ table_data' = RefreshedTable(table_data, sorted_once)
    /\ sorted_once' = TRUE
    /\ handler' = "browse_folder"
    /\ UNCHANGED fs
    /\ UNCHANGED <<tocvars, packvars>>

(***************************************************************************)
(* The reviewer's edits of the table                                       *)
(***************************************************************************)
\* on_cell_clicked on column 0 of row i
ClickInclude(i) ==
    /\ i \in 1..Len(table_data)
    /\ table_data' = [table_data EXCEPT ![i].include = ~@]
    /\ handler' = "on_cell_clicked"
    /\ UNCHANGED <<fs, out_folder, sorted_once>>
    /\ UNCHANGED <<tocvars, packvars>>

\* on_cell_double_clicked on column 6 of row i, the dialog accepted
EditBookmark(i, newval) ==
    /\ i \in 1..Len(table_data)
    /\ table_data' = [table_data EXCEPT ![i].bookmark = newval]
    /\ handler' = "on_cell_double_clicked"
    /\ UNCHANGED <<fs, out_folder, sorted_once>>
    /\ UNCHANGED <<tocvars, packvars>>

(***************************************************************************)
(* The folder is changed from outside the program                          *)
(***************************************************************************)
FileAppears(name) ==
    /\ name \notin DOMAIN fs
    /\ fs' = (name :> Original(name)) @@ fs
    /\ UNCHANGED <<out_folder, table_data, sorted_once, handler>>
    /\ UNCHANGED <<tocvars, packvars>>

FileDisappears(name) ==
    /\ name \in DOMAIN fs
    /\ fs' = [n \in DOMAIN fs \ {name} |-> fs[n]]
    /\ UNCHANGED <<out_folder, table_data, sorted_once, handler>>
    /\ UNCHANGED <<tocvars, packvars>>

(***************************************************************************)
(* The table under rescans: the folder changes, the reviewer edits, the    *)
(* timer and Browse Folder rescan.                                         *)
(***************************************************************************)
TableInit ==
    /\ fs \in { [n \in S |-> Original(n)] :
                  S \in SUBSET (SourceFiles \cup OtherFiles) }
    /\ AppConstructed
    /\ TocUnused

TableNext ==
    \/ TimerRefresh
    \/ BrowseFolder
    \/ \E i \in 1..Len(table_data) : ClickInclude(i)
    \/ \E i \in 1..Len(table_data) : \E b \in ManualBookmarks : EditBookmark(i, b)
    \/ \E n \in SourceFiles \cup OtherFiles : FileAppears(n)
    \/ \E n \in SourceFiles \cup OtherFiles : FileDisappears(n)

TableSpec == TableInit /\ [][TableNext]_vars

(***************************************************************************)
(* TLFApp.generate_pdf and TLFApp.convert_checked_files: the handlers      *)
(***************************************************************************)
MaxVer == 3
MaxBatch == 2

\* output_path.replace('.pdf', '_bookmarked.pdf')
BookmarkedName(name) == [name EXCEPT !.bk = TRUE]

\* os.path.splitext(input_path)[0] + ".pdf", in the output folder
PdfPathOf(name) == [name EXCEPT !.ext = "pdf"]

\* the name after the loop that appends _v2, _v3, ... while the file exists
VersionName(t, c) == IF c = 1 THEN OutName(t, <<>>) ELSE OutName(t, <<c>>)
FreeVersions(t) == { c \in 1..MaxVer : VersionName(t, c) \notin DOMAIN fs }
OutputPdf(t) ==
    VersionName(t, CHOOSE c \in FreeVersions(t) : \A d \in FreeVersions(t) : c <= d)

FreeRuns == { r \in 1..MaxRuns : runs[r].kind = "none" }
NextRun == CHOOSE r \in FreeRuns : \A q \in FreeRuns : r <= q

\* the field starts with the default prefix: the name is stamped anew, then
\* versioned; the worker thread is started on the rows that are checked
generate_pdf ==
    /\ FreeRuns # {}
    /\ FreeVersions(now) # {}
    /\ handler' = "generate_pdf"
    /\ IF table_data = <<>> \/ out_folder = ""
       THEN UNCHANGED <<outpdf_var, runs>>
       ELSE LET files_to_pack == SelectSeq(table_data, LAMBDA row : row.include)
            IN  /\ Len(files_to_pack) <= MaxBatch
                /\ outpdf_var' = OutputPdf(now)
                /\ IF files_to_pack = <<>>
                   THEN UNCHANGED runs
                   ELSE runs' = [runs EXCEPT ![NextRun] =
                            [NoRun EXCEPT !.kind = "pack", !.pc = "file",
                                          !.output_path = OutputPdf(now),
                                          !.files_to_pack = files_to_pack]]
    /\ UNCHANGED <<fs, out_folder, table_data, sorted_once, now, toc_checkbox>>
    /\ UNCHANGED tocvars

convert_checked_files ==
    /\ FreeRuns # {}
    /\ handler' = "convert_checked_files"
    /\ LET files_to_convert ==
               SelectSeq(table_data,
                         LAMBDA row : row.include /\ row.ftype \in {"RTF", "DOCX"})
       IN  /\ Len(files_to_convert) <= MaxBatch
           /\ IF files_to_convert = <<>> \/ out_folder = ""
              THEN UNCHANGED runs
              ELSE runs' = [runs EXCEPT ![NextRun] =
                       [NoRun EXCEPT !.kind = "convert", !.pc = "file",
                                     !.files_to_pack = files_to_convert]]
    /\ UNCHANGED <<fs, out_folder, table_data, sorted_once>>
    /\ UNCHANGED <<outpdf_var, now, toc_checkbox>>
    /\ UNCHANGED tocvars

\* the reviewer ticks or unticks "Include TOC page"
ToggleToc ==
    /\ toc_checkbox' = ~toc_checkbox
    /\ UNCHANGED <<outpdf_var, now, runs>>
    /\ UNCHANGED <<tablevars, tocvars>>

(***************************************************************************)
(* The worker threads, one step at a time.  What Word, PyMuPDF and the     *)
(* file system may do wrong is chosen freely at each step.                 *)
(***************************************************************************)
InFlight(r) == runs[r].kind # "none" /\ runs[r].pc # "end"

Remove(files, name) == [n \in DOMAIN files \ {name} |-> files[n]]

\* the thread is over: its locals are gone, what it reported stays
Ended(run) ==
    [NoRun EXCEPT !.kind = run.kind, !.pc = "end",
                  !.output_path = run.output_path, !.with_toc = run.with_toc,
                  !.files_to_pack = run.files_to_pack,
                  !.conv_failed = run.conv_failed, !.faults = run.faults,
                  !.signals = run.signals]

\* a plausible slip: the except clause logs and reports nothing
ExceptHandlerSilent(run, fault) ==
    Ended([run EXCEPT !.faults = @ \cup fault])

\* except Exception as e: log the trace, emit ("error", ...); the thread ends
ExceptHandler(run, fault) ==
    Ended([run EXCEPT !.faults = @ \cup fault, !.signals = Append(@, "error")])

\* emit ("done", ...) as the last statement of the try block; the thread ends
EmitDone(run) == Ended([run EXCEPT !.signals = Append(@, "done")])

CurrentRow(run) == run.files_to_pack[run.idx + 1]

\* convert_to_pdf_with_word: Word writes the PDF ("ok"), or fails and the
\* exception is swallowed ("failed"), or Dispatch or Quit raises ("raised");
\* the folder after the call
Converted(outcome, r, fname) ==
    IF outcome = "ok" /\ fname \in DOMAIN fs
    THEN (PdfPathOf(fname) :> Content("conv", fs[fname].doc, r, fs[fname].pages)) @@ fs
    ELSE fs

\* did the call leave without writing the PDF
NotWritten(outcome, fname) == outcome # "ok" \/ fname \notin DOMAIN fs

\* a plausible slip: the outline entry gets the page count so far, 0-based
TocEntryZeroBased(row, page_count) == <<1, row.bookmark, page_count>>

\* toc.append([1, bm, page_count + 1])
TocEntry(row, page_count) == <<1, row.bookmark, page_count + 1>>

\* generate_pdf.worker, one pass of the loop: convert an RTF or DOCX row,
\* toc.append, fitz.open(pdf_path), merged.insert_pdf
PackFile(r) ==
    /\ InFlight(r)
    /\ runs[r].kind = "pack"
    /\ runs[r].pc = "file"
    /\ LET run == runs[r]
           row == CurrentRow(run)
           pdf_path == PdfPathOf(row.fname)
       IN  \E outcome \in IF row.ftype = "PDF" THEN {"none"}
                          ELSE {"ok", "failed", "raised"} :
             LET folder == IF outcome = "none" THEN fs
                           ELSE Converted(outcome, r, row.fname)
                 after == [run EXCEPT
                     !.temp_pdfs = IF outcome \in {"none", "raised"} THEN @
                                   ELSE Append(@, pdf_path),
                     !.conv_failed = IF outcome # "none" /\ NotWritten(outcome, row.fname)
                                     THEN @ \cup {row.fname} ELSE @]
                 with_entry == [after EXCEPT !.toc =
                     Append(@, TocEntry(row, run.page_count))]
             IN  /\ fs' = folder
                 /\ runs' = [runs EXCEPT ![r] =
                        IF outcome = "raised"
                        THEN ExceptHandler(after, {"word"})
                        ELSE IF pdf_path \notin DOMAIN folder
                                \/ folder[pdf_path].kind = "partial"
                        THEN ExceptHandler(with_entry,
                                 IF outcome = "none" THEN {"open"} ELSE {})
                        ELSE [with_entry EXCEPT
                                 !.merged = Append(@, [fname |-> row.fname,
                                                       doc |-> folder[pdf_path].doc,
                                                       pages |-> folder[pdf_path].pages]),
                                 !.page_count = @ + folder[pdf_path].pages,
                                 !.idx = @ + 1,
                                 !.pc = IF run.idx + 1 = Len(run.files_to_pack)
                                        THEN "save" ELSE "file"]]
    /\ UNCHANGED <<out_folder, table_data, sorted_once, handler>>
    /\ UNCHANGED <<outpdf_var, now, toc_checkbox>>
    /\ UNCHANGED tocvars

\* convert_checked_files.worker, one pass of the loop, and the ("done", ...)
\* after the last pass
ConvertFile(r) ==
    /\ InFlight(r)
    /\ runs[r].kind = "convert"
    /\ runs[r].pc = "file"
    /\ LET run == runs[r]
           row == CurrentRow(run)
       IN  \E outcome \in {"ok", "failed", "raised"} :
             LET after == [run EXCEPT
                     !.idx = @ + 1,
                     !.conv_failed = IF NotWritten(outcome, row.fname)
                                     THEN @ \cup {row.fname} ELSE @]
             IN  /\ fs' = Converted(outcome, r, row.fname)
                 /\ runs' = [runs EXCEPT ![r] =
                        IF outcome = "raised" THEN ExceptHandler(after, {"word"})
                        ELSE IF run.idx + 1 = Len(run.files_to_pack)
                        THEN EmitDone(after)
                        ELSE after]
    /\ UNCHANGED <<out_folder, table_data, sorted_once, handler>>
    /\ UNCHANGED <<outpdf_var, now, toc_checkbox>>
    /\ UNCHANGED tocvars

\* generate_pdf.worker: merged.set_toc(toc); merged.save(temp_bookmarked_pdf)
SaveBookmarked(r) ==
    /\ InFlight(r)
    /\ runs[r].pc = "save"
    /\ LET run == runs[r]
           temp_bookmarked_pdf == BookmarkedName(run.output_path)
       IN  \E ok \in BOOLEAN :
             IF ok
             THEN /\ fs' = (temp_bookmarked_pdf :>
                               Content("bookmarked", run.merged[1].doc, r,
                                       run.page_count)) @@ fs
                  /\ runs' = [runs EXCEPT ![r].pc = "toc"]
             ELSE /\ runs' = [runs EXCEPT ![r] = ExceptHandler(run, {"save"})]
                  /\ UNCHANGED fs
    /\ UNCHANGED <<out_folder, table_data, sorted_once, handler>>
    /\ UNCHANGED <<outpdf_var, now, toc_checkbox>>
    /\ UNCHANGED tocvars

\* generate_pdf.worker: with the box ticked add_toc_and_links(temp, output),
\* which saves the final document as its last statement and may fail before
\* the save or in the middle of it; else os.rename(temp, output), which
\* raises when the target exists
TocOrRename(r) ==
    /\ InFlight(r)
    /\ runs[r].pc = "toc"
    /\ LET run == [runs[r] EXCEPT !.with_toc = toc_checkbox]
           output_path == run.output_path
           temp_bookmarked_pdf == BookmarkedName(output_path)
       IN  IF temp_bookmarked_pdf \notin DOMAIN fs
           THEN /\ runs' = [runs EXCEPT ![r] = ExceptHandler(run, {"missing"})]
                /\ UNCHANGED fs
           ELSE IF toc_checkbox
           THEN \E outcome \in {"ok", "raised", "partial"} :
                  \/ /\ outcome = "ok"
                     /\ fs' = (output_path :>
                                  Content("final", fs[temp_bookmarked_pdf].doc, r,
                                          fs[temp_bookmarked_pdf].pages + 1)) @@ fs
                     /\ runs' = [runs EXCEPT ![r] =
                            [run EXCEPT !.pc = "remove_bookmarked"]]
                  \/ /\ outcome = "raised"
                     /\ runs' = [runs EXCEPT ![r] = ExceptHandler(run, {"toc"})]
                     /\ UNCHANGED fs
                  \/ /\ outcome = "partial"
                     /\ fs' = (output_path :> Content("partial", "", r, 0)) @@ fs
                     /\ runs' = [runs EXCEPT ![r] = ExceptHandler(run, {"final_save"})]
           ELSE IF output_path \in DOMAIN fs
           THEN /\ runs' = [runs EXCEPT ![r] = ExceptHandler(run, {"exists"})]
                /\ UNCHANGED fs
           ELSE /\ fs' = (output_path :> fs[temp_bookmarked_pdf]) @@
                         Remove(fs, temp_bookmarked_pdf)
                /\ runs' = [runs EXCEPT ![r] = [run EXCEPT !.pc = "cleanup", !.idx = 0]]
    /\ UNCHANGED <<out_folder, table_data, sorted_once, handler>>
    /\ UNCHANGED <<outpdf_var, now, toc_checkbox>>
    /\ UNCHANGED tocvars

\* generate_pdf.worker: os.remove(temp_bookmarked_pdf)
RemoveBookmarked(r) ==
    /\ InFlight(r)
    /\ runs[r].pc = "remove_bookmarked"
    /\ LET run == runs[r]
           temp_bookmarked_pdf == BookmarkedName(run.output_path)
       IN  IF temp_bookmarked_pdf \notin DOMAIN fs
           THEN /\ runs' = [runs EXCEPT ![r] = ExceptHandler(run, {"missing"})]
                /\ UNCHANGED fs
           ELSE \E ok \in BOOLEAN :
                  IF ok
                  THEN /\ fs' = Remove(fs, temp_bookmarked_pdf)
                       /\ runs' = [runs EXCEPT ![r] =
                              [run EXCEPT !.pc = "cleanup", !.idx = 0]]
                  ELSE /\ runs' = [runs EXCEPT ![r] = ExceptHandler(run, {"remove"})]
                       /\ UNCHANGED fs
    /\ UNCHANGED <<out_folder, table_data, sorted_once, handler>>
    /\ UNCHANGED <<outpdf_var, now, toc_checkbox>>
    /\ UNCHANGED tocvars

\* generate_pdf.worker: for tfile in temp_pdfs: if exists: os.remove(tfile);
\* after the last one, log and emit ("done", ...)
CleanupTemp(r) ==
    /\ InFlight(r)
    /\ runs[r].pc = "cleanup"
    /\ LET run == runs[r]
       IN  IF run.idx = Len(run.temp_pdfs)
           THEN /\ runs' = [runs EXCEPT ![r] = EmitDone(run)]
                /\ UNCHANGED fs
           ELSE LET tfile == run.temp_pdfs[run.idx + 1]
                IN  IF tfile \notin DOMAIN fs
                    THEN /\ runs' = [runs EXCEPT ![r].idx = @ + 1]
                         /\ UNCHANGED fs
                    ELSE \E ok \in BOOLEAN :
                           IF ok
                           THEN /\ fs' = Remove(fs, tfile)
                                /\ runs' = [runs EXCEPT ![r].idx = @ + 1]
                           ELSE /\ runs' = [runs EXCEPT ![r] =
                                       ExceptHandler(run, {"remove"})]
                                /\ UNCHANGED fs
    /\ UNCHANGED <<out_folder, table_data, sorted_once, handler>>
    /\ UNCHANGED <<outpdf_var, now, toc_checkbox>>
    /\ UNCHANGED tocvars

WorkerStep(r) ==
    \/ PackFile(r)
    \/ ConvertFile(r)
    \/ SaveBookmarked(r)
    \/ TocOrRename(r)
    \/ RemoveBookmarked(r)
    \/ CleanupTemp(r)

(***************************************************************************)
(* The application with its worker threads                                 *)
(***************************************************************************)
\* the folder the reviewer works on, within one minute of the clock
FoldersAtStart == { {FileName("x", "rtf"), FileName("x", "pdf")} }

Init ==
    /\ fs \in { [n \in S |-> Original(n)] : S \in FoldersAtStart }
    /\ AppConstructed
    /\ TocUnused

Next ==
    \/ TimerRefresh
    \/ BrowseFolder
    \/ ToggleToc
    \/ generate_pdf
    \/ convert_checked_files
    \/ \E r \in 1..MaxRuns : PackFile(r)
    \/ \E r \in 1..MaxRuns : ConvertFile(r)
    \/ \E r \in 1..MaxRuns : SaveBookmarked(r)
    \/ \E r \in 1..MaxRuns : TocOrRename(r)
    \/ \E r \in 1..MaxRuns : RemoveBookmarked(r)
    \/ \E r \in 1..MaxRuns : CleanupTemp(r)

Spec == Init /\ [][Next]_vars

\* every started thread keeps being scheduled until it ends
FairSpec == Spec /\ \A r \in 1..MaxRuns : WF_vars(WorkerStep(r))

(***************************************************************************)
(* One folder, packed: the reviewer has chosen a folder holding the three  *)
(* source files; from there rows are ticked and unticked and packed, with  *)
(* no rescan in between.                                                   *)
(***************************************************************************)
BatchInit ==
    /\ fs = [n \in SourceFiles |-> Original(n)]
    /\ out_folder = "F"
    /\ table_data = SortByBookmark([i \in 1..Len(file_list) |-> NewRow(file_list[i])])
    /\ sorted_once = TRUE
    /\ handler = "browse_folder"
    /\ now = 0
    /\ outpdf_var = OutName(0, <<>>)
    /\ toc_checkbox = TRUE
    /\ runs = [r \in 1..MaxRuns |-> NoRun]
    /\ TocUnused

BatchNext ==
    \/ \E i \in 1..Len(table_data) : ClickInclude(i)
    \/ generate_pdf
    \/ \E r \in 1..MaxRuns : PackFile(r)
    \/ \E r \in 1..MaxRuns : SaveBookmarked(r)
    \/ \E r \in 1..MaxRuns : TocOrRename(r)
    \/ \E r \in 1..MaxRuns : RemoveBookmarked(r)
    \/ \E r \in 1..MaxRuns : CleanupTemp(r)

BatchSpec == BatchInit /\ [][BatchNext]_vars

(***************************************************************************)
(* The table on the screen: the search box, the rows shown and the row     *)
(* selected, with Move Up and Move Down.  In this part base holds          *)
(*   search            the files whose row holds the text of the search    *)
(*                     box (all of them for an empty box)                  *)
(*   filtered_indices  self.filtered_indices                               *)
(*   current_row       self.table.currentRow(), 0 for no row               *)
(* Places count from 1.                                                    *)
(***************************************************************************)
\* the rows the table shows: all of them when filtered_indices is empty
Indices(b, rows) ==
    IF b.filtered_indices = <<>> THEN [i \in 1..Len(rows) |-> i]
    ELSE b.filtered_indices

Swapped(rows, i, j) == [rows EXCEPT ![i] = rows[j], ![j] = rows[i]]

\* apply_filter, then refresh_table, which selects the row it found selected
\* if there still is such a row
apply_filter(search, rows, row) ==
    LET shown == SelectSeq([i \in 1..Len(rows) |-> i],
                           LAMBDA i : rows[i].fname \in search)
        count == IF shown = <<>> THEN Len(rows) ELSE Len(shown)
    IN  [search |-> search, filtered_indices |-> shown,
         current_row |-> IF 1 <= row /\ row <= count THEN row ELSE 0]

\* a plausible slip: the row at the top is selected after the move
SelectRowFirst(b, row) == [b EXCEPT !.current_row = 1]

\* self.table.selectRow(row)
selectRow(b, row) == [b EXCEPT !.current_row = row]

move_up ==
    LET selected == base.current_row
        indices == Indices(base, table_data)
        actual_idx == indices[selected]
    IN  /\ handler' = "move_up"
        /\ IF selected <= 1 \/ actual_idx <= 1
           THEN UNCHANGED <<base, table_data>>
           ELSE /\ table_data' = Swapped(table_data, actual_idx - 1, actual_idx)
                /\ base' = selectRow(apply_filter(base.search, table_data', selected),
                                     selected - 1)
        /\ UNCHANGED <<tocres, tocpc, fs, out_folder, sorted_once, packvars>>

move_down ==
    LET selected == base.current_row
        indices == Indices(base, table_data)
        actual_idx == indices[selected]
    IN  /\ handler' = "move_down"
        /\ IF selected < 1 \/ selected >= Len(indices)
              \/ actual_idx >= Len(table_data)
           THEN UNCHANGED <<base, table_data>>
           ELSE /\ table_data' = Swapped(table_data, actual_idx + 1, actual_idx)
                /\ base' = selectRow(apply_filter(base.search, table_data', selected),
                                     selected + 1)
        /\ UNCHANGED <<tocres, tocpc, fs, out_folder, sorted_once, packvars>>

\* the text of the search box is changed
SearchChanged(search) ==
    /\ base' = apply_filter(search, table_data, base.current_row)
    /\ handler' = "apply_filter"
    /\ UNCHANGED <<tocres, tocpc, fs, out_folder, table_data, sorted_once, packvars>>

\* a click on a row, not on its Include cell
ClickRow(row) ==
    /\ row \in 1..Len(Indices(base, table_data))
    /\ base' = selectRow(base, row)
    /\ handler' = "on_cell_clicked"
    /\ UNCHANGED <<tocres, tocpc, fs, out_folder, table_data, sorted_once, packvars>>

\* the reviewer has chosen a folder holding the three source files
MoveInit ==
    /\ fs = [n \in SourceFiles |-> Original(n)]
    /\ out_folder = "F"
    /\ table_data = SortByBookmark([i \in 1..Len(file_list) |-> NewRow(file_list[i])])
    /\ sorted_once = TRUE
    /\ handler = "browse_folder"
    /\ now = 0
    /\ outpdf_var = OutName(0, <<>>)
    /\ toc_checkbox = TRUE
    /\ runs = [r \in 1..MaxRuns |-> NoRun]
    /\ base = apply_filter(SourceFiles, table_data, 0)
    /\ tocres = "none"
    /\ tocpc = "start"

MoveNext ==
    \/ move_up
    \/ move_down
    \/ \E search \in SUBSET SourceFiles : SearchChanged(search)
    \/ \E row \in 1..Len(table_data) : ClickRow(row)

MoveSpec == MoveInit /\ [][MoveNext]_vars

(***************************************************************************)
(* Two folders: the reviewer chooses one folder, then the other.  In this  *)
(* part base is the disk, the files of each folder, and fs the files of    *)
(* the folder out_folder names.                                            *)
(***************************************************************************)
Folders == {"F", "G"}

\* another document under the same file name
OtherDoc(name) ==
    IF name = FileName("x", "rtf") THEN "T14"
    ELSE IF name = FileName("x", "pdf") THEN "T14b"
    ELSE "L16"

Other(name) == Content("orig", OtherDoc(name), 0, DocPages(OtherDoc(name)))

\* a folder of source files as they are, and a folder where a file may hold
\* the other document
OriginalFolders == { [n \in S |-> Original(n)] : S \in SUBSET SourceFiles }

FolderContents ==
    { [n \in DOMAIN c |-> IF c[n] THEN Original(n) ELSE Other(n)] :
        c \in UNION { [S -> BOOLEAN] : S \in SUBSET SourceFiles } }

\* browse_folder, the dialog returning folder: out_folder is set and
\* refresh_folder rescans it, starting from the rows the table holds
BrowseTo(folder) ==
    /\ out_folder' = folder
    /\ fs' = base[folder]
    /\ table_data' = RefreshedTableIn(base[folder], table_data, sorted_once)
    /\ sorted_once' = TRUE
    /\ handler' = "browse_folder"
    /\ UNCHANGED <<tocvars, packvars>>

FolderInit ==
    /\ base \in { [folder \in Folders |-> IF folder = "F" THEN f ELSE g] :
                    f \in OriginalFolders, g \in FolderContents }
    /\ tocres = "none"
    /\ tocpc = "start"
    /\ fs = <<>>
    /\ AppConstructed

FolderNext ==
    \/ \E folder \in Folders : BrowseTo(folder)
    \/ TimerRefresh

FolderSpec == FolderInit /\ [][FolderNext]_vars

(***************************************************************************)
(* Properties of the table of contents                                     *)
(***************************************************************************)
LineCountOfPage(page_entries) ==
    SumSeq([i \in 1..Len(page_entries) |-> Len(page_entries[i][2])])

\* the number of TOC pages that the final document really starts with
FrontMatterPages ==
    Cardinality({ i \in 1..Len(tocres.pages) : tocres.pages[i][1] = "toc" })

\* C8: pagination never splits an entry: the pages of paginate_wrapped_entries,
\* read one after the other, are the input entries in their input order, each
\* once and each with all the wrapped lines of its title (every word of it).
C8_EntriesNeverSplit ==
    tocpc = "saved" =>
        LET entries == extract_toc_entries(base)
            flat == Concat(tocres.paginated)
        IN  /\ Len(flat) = Len(entries)
            /\ \A i \in 1..Len(flat) :
                  /\ flat[i][1] = entries[i]
                  /\ flat[i][2] = WrappedOf(entries[i], toc_text_max_width)
                  /\ Concat(flat[i][2]) = entries[i][2]

\* a run in which an entry of several wrapped lines was moved whole to a new page
C8_Witness ==
    /\ tocpc = "saved"
    /\ Len(tocres.paginated) >= 2
    /\ Len(tocres.paginated[1]) >= 1
    /\ \E i \in 1..Len(tocres.paginated[2]) : Len(tocres.paginated[2][i][2]) >= 2

\* C9: every TOC page fits the page's capacity: on each page returned by
\* paginate_wrapped_entries the wrapped line counts add up to at most
\* lines_per_page, also when one entry alone wraps to more lines than that.
C9_PagesFitCapacity ==
    tocpc = "saved" =>
        \A p \in 1..Len(tocres.paginated) :
            LineCountOfPage(tocres.paginated[p]) <= lines_per_page(PaperHeight)

\* C10: for every entry, the number printed on its last line is
\* target_page + front-matter page count + 1, its link goes to page index
\* target_page + front-matter page count, and the page of the final document at
\* the printed (1-indexed) position is the body page the entry points at.
C10_PrintedNumberIsLinkedPage ==
    tocpc = "saved" =>
        LET entries == extract_toc_entries(base)
        IN  /\ Len(tocres.link_targets) = Len(entries)
            /\ Len(tocres.links) = Len(entries)
            /\ \A i \in 1..Len(entries) :
                  LET lt == tocres.link_targets[i]
                      target_page == entries[i][3]
                      mine == { k \in 1..Len(tocres.drawn) :
                                  /\ tocres.drawn[k].page = lt[1]
                                  /\ lt[2][2] + FontSize <= tocres.drawn[k].y
                                  /\ tocres.drawn[k].y < lt[2][4] }
                      numbered == { k \in mine : tocres.drawn[k].number # <<>> }
                      printed == target_page + FrontMatterPages + 1
                  IN  /\ lt[3] = target_page
                      /\ \A k \in numbered : tocres.drawn[k].number = <<printed>>
                      /\ mine # {} => Cardinality(numbered) = 1
                      /\ tocres.links[i].page = target_page + FrontMatterPages
                      /\ printed \in 1..Len(tocres.pages)
                      /\ tocres.pages[printed] = <<"body", target_page>>
                      /\ tocres.links[i].page + 1 = printed

\* a run with two TOC pages and a numbered entry that points past the first body page
C10_Witness ==
    /\ tocpc = "saved"
    /\ FrontMatterPages >= 2
    /\ \E i \in 1..Len(tocres.link_targets) :
          /\ tocres.link_targets[i][3] >= 1
          /\ \E k \in 1..Len(tocres.drawn) :
                /\ tocres.drawn[k].page = tocres.link_targets[i][1]
                /\ tocres.drawn[k].number =
                       <<tocres.link_targets[i][3] + FrontMatterPages + 1>>

\* C11: the outline of the output is the outline of the body, entry for entry
\* in the same order with the same level and title, each page reference being
\* the body's page reference plus the number of TOC pages put in front.
C11_OutlineShiftedByFrontMatter ==
    tocpc = "saved" =>
        /\ Len(tocres.toc) = Len(base.toc)
        /\ \A i \in 1..Len(base.toc) :
              /\ tocres.toc[i][1] = base.toc[i][1]
              /\ tocres.toc[i][2] = base.toc[i][2]
              /\ tocres.toc[i][3] = base.toc[i][3] + FrontMatterPages
              /\ tocres.pages[tocres.toc[i][3]] = <<"body", base.toc[i][3] - 1>>

\* a run with two TOC pages in front of a body whose outline has entries of
\* both levels, one of them on the second body page
C11_Witness ==
    /\ tocpc = "saved"
    /\ FrontMatterPages >= 2
    /\ Len(tocres.toc) >= 2
    /\ \E i \in 1..Len(tocres.toc) : tocres.toc[i][1] = 2
    /\ \E i \in 1..Len(tocres.toc) : tocres.toc[i][3] = 2 + FrontMatterPages

\* C12: every link put on a TOC page addresses a real page of the output: it
\* lies on one of the TOC pages and it goes to a page index that is past the
\* TOC pages and before the end of the final document.
C12_LinksAddressRealPages ==
    tocpc = "saved" =>
        /\ Len(tocres.links) = Len(base.toc)
        /\ \A i \in 1..Len(tocres.links) :
              /\ 0 <= tocres.links[i].on
              /\ tocres.links[i].on < FrontMatterPages
              /\ tocres.link_targets[i][1] = tocres.links[i].on
              /\ tocres.links[i].page = tocres.link_targets[i][3] + FrontMatterPages
              /\ FrontMatterPages <= tocres.links[i].page
              /\ tocres.links[i].page < Len(tocres.pages)

\* a run with links on two TOC pages, one to the first and one to the last
\* page of a body of two pages
C12_Witness ==
    /\ tocpc = "saved"
    /\ base.pages = 2
    /\ \E i \in 1..Len(tocres.links) : \E j \in 1..Len(tocres.links) :
          /\ tocres.links[i].on = 0
          /\ tocres.links[j].on = 1
          /\ tocres.links[i].page = FrontMatterPages
          /\ tocres.links[j].page = Len(tocres.pages) - 1

(***************************************************************************)
(* Properties of the table under rescans                                   *)
(***************************************************************************)
SupportedFiles(files) ==
    { n \in DOMAIN files : n.ext \in {"rtf", "pdf", "docx"} /\ n.base # "~$y" }

NamesOf(rows) == [i \in 1..Len(rows) |-> rows[i].fname]

\* a step that is a rescan of a chosen folder
RescanStep == (TimerRefresh \/ BrowseFolder) /\ out_folder' # ""

\* C7: after any rescan the table has exactly one row per supported file of the
\* folder and none for a file that is gone; every file that had a row and is
\* still there keeps its include flag and its bookmark, and these rows keep
\* their relative order.
C7_RescanKeepsTable ==
    [][RescanStep =>
        LET supported == SupportedFiles(fs')
            persisting == { n \in supported :
                              \E i \in 1..Len(table_data) : table_data[i].fname = n }
        IN  /\ { table_data'[i].fname : i \in 1..Len(table_data') } = supported
            /\ Len(table_data') = Cardinality(supported)
            /\ \A i \in 1..Len(table_data') :
                  table_data'[i].ftype = TypeOfExt(table_data'[i].fname.ext)
            /\ \A i \in 1..Len(table_data) : \A j \in 1..Len(table_data') :
                  table_data[i].fname = table_data'[j].fname =>
                      /\ table_data'[j].include = table_data[i].include
                      /\ table_data'[j].bookmark = table_data[i].bookmark
            /\ SelectSeq(NamesOf(table_data'), LAMBDA n : n \in persisting)
                 = SelectSeq(NamesOf(table_data), LAMBDA n : n \in persisting)
    ]_vars

\* after a rescan: an unchecked row with a manual bookmark is still there, and
\* behind it stands a row that a rescan appended later (the first rescan's sort
\* would have put it in front)
C7_Witness ==
    /\ handler = "refresh_folder"
    /\ Cardinality(DOMAIN fs) < Cardinality(SourceFiles \cup OtherFiles)
    /\ \E i \in 1..Len(table_data) : \E j \in 1..Len(table_data) :
          /\ i < j
          /\ ~table_data[i].include
          /\ table_data[i].bookmark \in ManualBookmarks
          /\ table_data[j].include
          /\ KeyLess(parse_sort_key(table_data[j].bookmark),
                     parse_sort_key(table_data[i].bookmark))


(***************************************************************************)
(* Properties of the runs                                                  *)
(***************************************************************************)
PackRuns == { r \in 1..MaxRuns : runs[r].kind = "pack" }
EndedPackRuns == { r \in PackRuns : runs[r].pc = "end" }
TempsOf(r) == { n \in DOMAIN fs : fs[n].kind = "conv" /\ fs[n].by = r }
Complete(content, run) ==
    \/ content.kind = "final"
    \/ content.kind = "bookmarked" /\ ~run.with_toc

\* C1: at no time are two packaging workers in flight whose output_path is
\* the same file.
C1_DistinctOutputPaths ==
    \A r \in PackRuns : \A q \in PackRuns :
        (r # q /\ InFlight(r) /\ InFlight(q))
            => runs[r].output_path # runs[q].output_path

\* C2: a folder rescan, fired by the timer or by Browse Folder, never
\* executes while a conversion or packaging worker is in flight.
C2_NoRescanDuringRun ==
    handler \in {"refresh_folder", "browse_folder"}
        => \A r \in 1..MaxRuns : ~InFlight(r)

\* C3: when a packaging run has ended, on whatever path, no intermediate PDF
\* that it created by converting an RTF or DOCX file is left in the folder.
C3_TempsRemovedAtEnd ==
    \A r \in EndedPackRuns : TempsOf(r) = {}

\* C4: a conversion that failed does not abort the batch: no page of the
\* failed file is merged, and a run of two or more files in which nothing
\* else went wrong ends with "done".
C4_FailedConversionSkipped ==
    \A r \in PackRuns :
        /\ \A i \in 1..Len(runs[r].merged) :
               runs[r].merged[i].fname \notin runs[r].conv_failed
        /\ (/\ runs[r].pc = "end"
            /\ runs[r].conv_failed # {}
            /\ runs[r].faults = {}
            /\ Len(runs[r].files_to_pack) >= 2)
               => runs[r].signals = <<"done">>

\* C5: in every state the file at a run's output_path does not exist or is
\* the complete final document, and a run that reported failure has left no
\* file at its output_path.
C5_OnlyCompleteOutput ==
    \A r \in PackRuns :
        LET output_path == runs[r].output_path
        IN  /\ output_path \in DOMAIN fs => Complete(fs[output_path], runs[r])
            /\ (runs[r].pc = "end" /\ runs[r].signals = <<"error">>)
                   => output_path \notin DOMAIN fs

\* C6: every packaging run that starts a worker eventually emits exactly one
\* completion signal, "done" or "error", and never more than one: an
\* exception in the worker ends the run with the single signal "error".
C6_OneCompletionSignal ==
    /\ [](\A r \in PackRuns :
            /\ runs[r].signals \in {<<>>, <<"done">>, <<"error">>}
            /\ runs[r].faults # {} => runs[r].signals = <<"error">>)
    /\ \A r \in 1..MaxRuns :
          (runs[r].kind = "pack")
              ~> (runs[r].pc = "end" /\ runs[r].signals \in {<<"done">>, <<"error">>})

C6_Witness ==
    /\ \E r \in EndedPackRuns :
          runs[r].faults # {} /\ runs[r].signals = <<"error">>
    /\ \E r \in EndedPackRuns : runs[r].signals = <<"done">>

\* the page counts of the first n documents of a merge, added up
PagesBefore(merged, n) == SumSeq([j \in 1..n |-> merged[j].pages])

\* C13: a packaging run takes the rows that are ticked when it is started, in
\* table order, one after the other; its outline gets exactly one level-1
\* entry per document merged, in that order, with the row's bookmark and with
\* the page 1 + the page counts of the documents merged before it; rows that
\* are not ticked give no page and no entry.
C13_OneEntryPerIncludedRow ==
    /\ [][\A r \in 1..MaxRuns :
             (runs[r].kind = "none" /\ runs'[r].kind = "pack")
                 => runs'[r].files_to_pack =
                        SelectSeq(table_data, LAMBDA row : row.include)]_vars
    /\ [](\A r \in PackRuns :
            runs[r].pc # "end" =>
                LET run == runs[r]
                    n == Len(run.merged)
                IN  /\ Len(run.toc) = n
                    /\ n <= Len(run.files_to_pack)
                    /\ run.pc = "file" => run.idx = n /\ n < Len(run.files_to_pack)
                    /\ run.pc # "file" => n = Len(run.files_to_pack)
                    /\ run.page_count = PagesBefore(run.merged, n)
                    /\ \A i \in 1..n :
                          /\ run.merged[i].fname = run.files_to_pack[i].fname
                          /\ run.toc[i] = <<1, run.files_to_pack[i].bookmark,
                                            1 + PagesBefore(run.merged, i - 1)>>
                          /\ run.toc[i][3] <= run.page_count)

\* a run that has merged two of three rows, the third not ticked, the first
\* document being two pages long
C13_Witness ==
    \E r \in PackRuns :
        /\ runs[r].pc = "save"
        /\ Len(runs[r].merged) = 2
        /\ runs[r].toc[2][3] = 3
        /\ Len(table_data) = 3
        /\ \E i \in 1..3 : ~table_data[i].include

\* C14: wrap_toc_title returns, its lines read one after the other are the
\* words of the title, none left out, and a word that is wider than the
\* width stands alone on its line; a line of several words fits the width.
C14_WideWordAlone ==
    tocpc = "wrapped" =>
        /\ Concat(tocres) = base.title
        /\ \A i \in 1..Len(tocres) :
              /\ tocres[i] # <<>>
              /\ (\E k \in 1..Len(tocres[i]) : tocres[i][k] > base.max_width)
                     => Len(tocres[i]) = 1
              /\ Len(tocres[i]) > 1 => get_text_length(tocres[i]) <= base.max_width

\* a title whose over-wide word stands between a line before it and words
\* after it
C14_Witness ==
    /\ tocpc = "wrapped"
    /\ Len(tocres) >= 3
    /\ \E i \in 2..Len(tocres) - 1 :
          /\ tocres[i] = <<WideWord>>
          /\ WideWord > base.max_width
          /\ tocres[i - 1][1] <= base.max_width
          /\ tocres[i + 1][1] <= base.max_width

(***************************************************************************)
(* Properties of the sort key                                              *)
(***************************************************************************)
KeyOf(row) == parse_sort_key(row.bookmark)
Mentions(bookmark, key) ==
    \E i \in 1..Len(bookmark) : bookmark[i].k = "w" /\ InWord(key, bookmark[i].s)
PlaceOf(rows, row) == CHOOSE i \in 1..Len(rows) : rows[i] = row
WellFormedKey(key) ==
    /\ key[1] \in Nat
    /\ key[2] # <<>>
    /\ \A i \in 1..Len(key[2]) : key[2][i] \in Nat

\* C15: the keys of any rows are comparable, every two of them being in
\* exactly one of the relations less, equal, greater; the sort puts the rows
\* in nondecreasing key order, keeps the order of rows with equal keys, and
\* sorting the result again changes nothing.
C15_SortStableIdempotent ==
    tocpc = "sorted" =>
        /\ \A i \in 1..Len(base) : WellFormedKey(KeyOf(base[i]))
        /\ \A i \in 1..Len(base) : \A j \in 1..Len(base) :
              LET a == KeyOf(base[i])
                  b == KeyOf(base[j])
              IN  /\ ~(KeyLess(a, b) /\ KeyLess(b, a))
                  /\ (a = b) <=> (~KeyLess(a, b) /\ ~KeyLess(b, a))
        /\ Len(tocres) = Len(base)
        /\ { tocres[i] : i \in 1..Len(tocres) } = { base[i] : i \in 1..Len(base) }
        /\ \A i \in 1..Len(tocres) : \A j \in 1..Len(tocres) :
              i < j => ~KeyLess(KeyOf(tocres[j]), KeyOf(tocres[i]))
        /\ \A i \in 1..Len(base) : \A j \in 1..Len(base) :
              (i < j /\ KeyOf(base[i]) = KeyOf(base[j]))
                  => PlaceOf(tocres, base[i]) < PlaceOf(tocres, base[j])
        /\ SortByBookmark(tocres) = tocres

\* a list that the sort reorders and that has two rows with different
\* bookmarks and equal keys
C15_Witness ==
    /\ tocpc = "sorted"
    /\ tocres # base
    /\ \E i \in 1..Len(base) : \E j \in 1..Len(base) :
          /\ i < j
          /\ base[i].bookmark # base[j].bookmark
          /\ KeyOf(base[i]) = KeyOf(base[j])

AppendixExample ==
    <<Word("appendix"), Num(<<3>>), Punct(":"), Word("listing"), Word("of"),
      Word("protocol"), Word("deviations")>>

NumberAfter(bookmark, p) ==
    LET at == { i \in p + 1..Len(bookmark) : bookmark[i].k = "n" }
    IN  IF at = {} THEN <<>>
        ELSE bookmark[CHOOSE i \in at : \A j \in at : i <= j].path

FirstMention(bookmark, keys) ==
    LET at == { i \in 1..Len(bookmark) :
                  bookmark[i].k = "w" /\ \E k \in keys : InWord(k, bookmark[i].s) }
    IN  CHOOSE i \in at : \A j \in at : i <= j

\* C17: the numeric path is the whole dotted number that follows the
\* category keyword: for a table, listing or figure bookmark the number after
\* that keyword, not a number before it; for an appendix bookmark the number
\* after "appendix" with all its sub-levels.
C17_PathFollowsKeyword ==
    tocpc = "sorted" =>
        \A i \in 1..Len(base) :
            LET b == base[i].bookmark
                key == KeyOf(base[i])
            IN  /\ (key[1] = 3 /\ NumberAfter(b, FirstMention(b, {"appendix"})) # <<>>)
                       => key[2] = NumberAfter(b, FirstMention(b, {"appendix"}))
                /\ (key[1] \in {0, 1, 2}
                    /\ NumberAfter(b, FirstMention(b, {"table", "listing", "figure"}))
                           # <<>>)
                       => key[2] = NumberAfter(b, FirstMention(b,
                                       {"table", "listing", "figure"}))

(***************************************************************************)
(* Properties of the title extractors                                      *)
(***************************************************************************)
Extracted == tocpc = "extracted"

\* C18: no line that is_footer_content flags is the source of a title: in
\* every extractor, on the identifier path and on the fallback path, each
\* title that is not empty was taken from a line that is not flagged.
C18_NoNoiseLineIsSource ==
    Extracted =>
        /\ tocres.title1 # <<>> => ~is_footer_content(tocres.src1)
        /\ tocres.title2 # <<>> => ~is_footer_content(tocres.src2)
        /\ tocres.title3 # <<>> => ~is_footer_content(tocres.src3)

\* the lines of the document that pass the validator, in order
PlausibleLines == SelectSeq(base.lines, valid_title_candidate)

NoIdentifier == \A i \in 1..Len(base.lines) : "T" \notin PiecesOf(base.lines[i])

PlausibleAt(k) ==
    IF k <= Len(PlausibleLines) THEN filter_note_from_line(PlausibleLines[k]) ELSE <<>>

\* C19: when no line holds an identifier, every extractor takes the first one
\* to three plausible lines, in order, as Title-1, Title-2 and Title-3; so
\* the titles are not all empty when the document has a plausible line.
C19_FallbackTakesPlausibleLines ==
    (Extracted /\ NoIdentifier /\ PlausibleLines # <<>>) =>
        /\ tocres.title1 = PlausibleAt(1)
        /\ tocres.title2 = PlausibleAt(2)
        /\ tocres.title3 = PlausibleAt(3)

\* the candidate lines of the RTF and PDF extractors
CandidateLines ==
    IF base.fmt = "RTF"
    THEN SelectSeq(base.lines, LAMBDA l : ~is_footer_content(l))
    ELSE base.lines

IdentifierLines ==
    { i \in 1..Len(CandidateLines) :
        i <= (IF base.fmt = "PDF" THEN PdfWindow ELSE Len(CandidateLines))
        /\ "T" \in PiecesOf(CandidateLines[i]) }

FirstIdentifierLine == CHOOSE i \in IdentifierLines : \A j \in IdentifierLines : i <= j

\* what the candidate line k gives if it passes the validator, else nothing
ValidatedLine(k) ==
    LET c == IF k <= Len(CandidateLines)
             THEN filter_note_from_line(CandidateLines[k]) ELSE <<>>
    IN  IF valid_title_candidate(c) THEN c ELSE <<>>

PartsAfterFirst(line) ==
    { SubSeq(line, a, b) : a \in 2..Len(line), b \in 1..Len(line) }

C21_BookmarkFromTitles ==
    LET composite ==
            tocres.title1
            \o (IF tocres.title2 # <<>> THEN <<":">> \o tocres.title2 ELSE <<>>)
            \o (IF tocres.title3 # <<>> THEN <<"-">> \o tocres.title3 ELSE <<>>)
    IN  /\ Extracted =>
              /\ composite # <<>> => tocres.bookmark = composite
              /\ composite = <<>> => tocres.bookmark = BaseName
        /\ tocpc = "failed" =>
              /\ tocres.bookmark = BaseName
              /\ tocres.title1 = <<>> /\ tocres.title2 = <<>> /\ tocres.title3 = <<>>
        /\ tocpc \in {"extracted", "failed"} => tocres.bookmark # <<>>

\* a PDF without an identifier and without a plausible line among its first
\* lines: the composite is empty and the bookmark is the file's name
C21_Witness ==
    /\ Extracted
    /\ base.fmt = "PDF"
    /\ tocres.title1 = <<>>
    /\ tocres.bookmark = BaseName
    /\ \E i \in 1..Len(base.lines) : valid_title_candidate(base.lines[i])

\* the text of the line after the end of its first identifier, without the
\* note clause
RestAfterIdentifier(line) ==
    LET at == { p \in 1..Len(line) : line[p] = "T" }
        p == CHOOSE q \in at : \A r \in at : q <= r
    IN  filter_note_from_line(SubSeq(line, p + 1, Len(line)))

\* C22: in the RTF and PDF extractors the line of the first identifier is
\* split at the end of the identifier, wherever the identifier stands in the
\* line: Title-2 is the text after the identifier if that passes the
\* validator (and else line i + 1 if that passes).
C22_RemainderFollowsMatch ==
    (Extracted /\ base.fmt \in {"RTF", "PDF"} /\ IdentifierLines # {}) =>
        LET i == FirstIdentifierLine
            rest == RestAfterIdentifier(CandidateLines[i])
        IN  tocres.title2 = IF valid_title_candidate(rest) THEN rest
                            ELSE ValidatedLine(i + 1)

(***************************************************************************)
(* Properties of the RTF header scanner                                    *)
(***************************************************************************)
CountOf(text, c) == Cardinality({ i \in 1..Len(text) : text[i] = c })

Balanced(g) ==
    /\ CountOf(g, "{") = CountOf(g, "}")
    /\ \A k \in 1..Len(g) :
          CountOf(SubSeq(g, 1, k), "}") <= CountOf(SubSeq(g, 1, k), "{")

\* the groups stand in the text one after the other, from place from on
RECURSIVE OccurInOrder(_, _, _)
OccurInOrder(groups, text, from) ==
    IF groups = <<>> THEN TRUE
    ELSE \E p \in from..Len(text) :
            /\ p + Len(Head(groups)) - 1 <= Len(text)
            /\ SubSeq(text, p, p + Len(Head(groups)) - 1) = Head(groups)
            /\ OccurInOrder(Tail(groups), text, p + Len(Head(groups)))

\* C23: every string extract_groups_from_rtf_header returns starts with "{",
\* ends with "}", has as many "{" as "}" and no prefix that closes more than
\* it opens, whatever the header text (a closing brace too many, a group
\* left open); the groups are returned in the order they stand in the text.
C23_GroupsBalanced ==
    tocpc = "scanned" =>
        /\ \A n \in 1..Len(tocres) :
              /\ tocres[n] # <<>>
              /\ Head(tocres[n]) = "{"
              /\ tocres[n][Len(tocres[n])] = "}"
              /\ Balanced(tocres[n])
        /\ OccurInOrder(tocres, base, 1)

\* a text that starts with a closing brace too many and ends in a group left
\* open, with a group returned from in between
C23_Witness ==
    /\ tocpc = "scanned"
    /\ Len(base) >= 3
    /\ base[1] = "}"
    /\ base[Len(base)] = "{"
    /\ tocres # <<>>

(***************************************************************************)
(* Properties of Move Up and Move Down                                     *)
(***************************************************************************)
HasSelection(b, rows) == b.current_row \in 1..Len(Indices(b, rows))

\* the row of table_data that the selected row of the table shows
SelectedRow(b, rows) == rows[Indices(b, rows)[b.current_row]]

PlaceOfRow(rows, row) == CHOOSE i \in 1..Len(rows) : rows[i] = row

Without(rows, row) == SelectSeq(rows, LAMBDA r : r # row)

\* the selected document moves by one place (by = -1 up, 1 down) and stays
\* selected; the other rows keep their order
MovedBy(by) ==
    LET doc == SelectedRow(base, table_data)
    IN  /\ Len(table_data') = Len(table_data)
        /\ \E i \in 1..Len(table_data') : table_data'[i] = doc
        /\ PlaceOfRow(table_data', doc) = PlaceOfRow(table_data, doc) + by
        /\ Without(table_data', doc) = Without(table_data, doc)
        /\ HasSelection(base', table_data')
        /\ SelectedRow(base', table_data') = doc

\* C24: Move Up on a selected row that is neither the first row shown nor
\* the first of the order (Move Down: neither the last shown nor the last of
\* the order), under any search: the same document is selected afterwards
\* and stands one place earlier (later); the other rows keep their order and
\* no row is lost or doubled.
C24_MoveKeepsSelection ==
    [][ /\ (/\ handler' = "move_up"
            /\ HasSelection(base, table_data)
            /\ base.current_row > 1
            /\ PlaceOfRow(table_data, SelectedRow(base, table_data)) > 1)
           => MovedBy(-1)
        /\ (/\ handler' = "move_down"
            /\ HasSelection(base, table_data)
            /\ base.current_row < Len(Indices(base, table_data))
            /\ PlaceOfRow(table_data, SelectedRow(base, table_data)) < Len(table_data))
           => MovedBy(1) ]_vars

(***************************************************************************)
(* Properties of the files of the folder                                   *)
(***************************************************************************)
\* C25: no run deletes or overwrites a file that was in the folder before it
\* started: every file the folder held at the start is still there and
\* holds what it held, whatever has been converted or packed since.
C25_SourceFilesUntouched ==
    \A folder \in FoldersAtStart : \A n \in folder :
        /\ n \in DOMAIN fs
        /\ fs[n] = Original(n)

(***************************************************************************)
(* Properties of the pages of the table of contents                        *)
(***************************************************************************)
\* C26: every page paginate_wrapped_entries returns holds at least one
\* entry, also when the first entry wraps to more lines than a page holds;
\* so the page count used for the printed numbers, the links and the outline
\* is the number of TOC pages that carry entries.
C26_NoEmptyTocPage ==
    tocpc = "saved" =>
        /\ \A p \in 1..Len(tocres.paginated) : tocres.paginated[p] # <<>>
        /\ FrontMatterPages =
              Cardinality({ p \in 1..Len(tocres.paginated) : tocres.paginated[p] # <<>> })

(***************************************************************************)
(* Properties of the table after Browse Folder                             *)
(***************************************************************************)
\* C27: when browse_folder has selected a folder and rescanned it, every row
\* describes a file of that folder: the file is there and the row's bookmark
\* is what the extractor returns for that file, also when the folder
\* selected before held a file of the same type and name.
C27_RowsDescribeSelectedFolder ==
    handler = "browse_folder" =>
        \A i \in 1..Len(table_data) :
            /\ table_data[i].fname \in DOMAIN base[out_folder]
            /\ table_data[i].bookmark =
                  ExtractBookmark(table_data[i].fname,
                                  base[out_folder][table_data[i].fname])

====
